---------------------------- MODULE Spec2Model ----------------------------
(***************************************************************************)
(* Model of scraper.py: the LeaderboardScraper (five source adapters run   *)
(* one after the other by run()), generate_html and main().                *)
(*                                                                         *)
(* Text is modelled by TLA+ strings, on which Len, SubSeq and \o act as on *)
(* Python/JavaScript strings.  U+2014 (the em dash the code uses as its    *)
(* "no data" marker) is not an ASCII character and is written "~" here;    *)
(* no page text of the model contains "~" otherwise.                       *)
(***************************************************************************)
EXTENDS Integers, Sequences, FiniteSets, TLC

VARIABLES
    pc,           \* position of the process in main()/run()
    idx,          \* position of the running adapter in its dict of URLs
    results,      \* the running adapter's local `results`
    all_results,  \* run()'s local `all_results`
    self_data,    \* self.data, set by __init__
    browser,      \* "none" | "open" | "closed"
    page,         \* the document loaded in the shared page
    served,       \* what the network answered to each request of this run
    down,         \* the sources whose every operation raises in this run
    devs,         \* responses so far that are not the source's usual page
    requests,     \* url -> number of times it was requested in this run
    files,        \* output file name -> content
    exit_code,    \* -1 while the process runs
    runNo,        \* 1, or 2 in the second of two runs on the same outputs
    first         \* the snapshot the first of two runs returned

vars == <<pc, idx, results, all_results, self_data, browser, page, served, down,
          devs, requests, files, exit_code, runNo, first>>

\* At most this many requests of a run are answered by something else than
\* the source's usual page (an outage of a whole source counts once).
MaxDev == 1

----------------------------------------------------------------------------
(* Strings *)

EmDash == "~"

NoText == ""

IsSpace(c) == c \in {" ", "\n", "\t"}

IsDigit(c) == c \in {"0", "1", "2", "3", "4", "5", "6", "7", "8", "9"}

CharAt(s, i) == SubSeq(s, i, i)

\* the string whole, whatever n
Whole(s, n) == s

\* s[:n] / s.substring(0, n)
Substring(s, n) == IF Len(s) > n THEN SubSeq(s, 1, n) ELSE s

\* s[i:] with i counted from 1
From(s, i) == IF i > Len(s) THEN "" ELSE SubSeq(s, i, Len(s))

\* least position at which sub occurs in s, 0 when it does not
IndexOf(s, sub) ==
    LET hits == {i \in 1..(Len(s) + 1) : i + Len(sub) - 1 <= Len(s)
                                         /\ SubSeq(s, i, i + Len(sub) - 1) = sub}
    IN  IF hits = {} THEN 0 ELSE CHOOSE i \in hits : \A j \in hits : i <= j

\* `sub in s` / s.includes(sub)
Includes(s, sub) == IndexOf(s, sub) > 0

LowerOf ==
    [A |-> "a", B |-> "b", C |-> "c", D |-> "d", E |-> "e", F |-> "f", G |-> "g",
     H |-> "h", I |-> "i", J |-> "j", K |-> "k", L |-> "l", M |-> "m", N |-> "n",
     O |-> "o", P |-> "p", Q |-> "q", R |-> "r", S |-> "s", T |-> "t", U |-> "u",
     V |-> "v", W |-> "w", X |-> "x", Y |-> "y", Z |-> "z"]

LowerChar(c) == IF c \in DOMAIN LowerOf THEN LowerOf[c] ELSE c

RECURSIVE Lower(_)
Lower(s) == IF s = "" THEN "" ELSE LowerChar(CharAt(s, 1)) \o Lower(From(s, 2))

RECURSIVE LStrip(_)
LStrip(s) == IF s # "" /\ IsSpace(CharAt(s, 1)) THEN LStrip(From(s, 2)) ELSE s

RECURSIVE RStrip(_)
RStrip(s) ==
    IF s # "" /\ IsSpace(CharAt(s, Len(s))) THEN RStrip(SubSeq(s, 1, Len(s) - 1)) ELSE s

\* s.strip() / s.trim()
Trim(s) == RStrip(LStrip(s))

\* s.rstrip(chars)
RECURSIVE RStripChars(_, _)
RStripChars(s, chars) ==
    IF s # "" /\ CharAt(s, Len(s)) \in chars
    THEN RStripChars(SubSeq(s, 1, Len(s) - 1), chars)
    ELSE s

\* s.split("\n")[0]
FirstLine(s) ==
    LET i == IndexOf(s, "\n") IN IF i = 0 THEN s ELSE SubSeq(s, 1, i - 1)

\* s with everything from position i on removed (i = 0: nothing removed)
CutAt(s, i) == IF i = 0 THEN s ELSE SubSeq(s, 1, i - 1)

RECURSIVE LStripDigits(_)
LStripDigits(s) ==
    IF s # "" /\ IsDigit(CharAt(s, 1)) THEN LStripDigits(From(s, 2)) ELSE s

\* model.replace(/^#?\d+\s*/, "")
StripRank(s) ==
    LET t == IF s # "" /\ CharAt(s, 1) = "#" THEN From(s, 2) ELSE s
    IN  IF t # "" /\ IsDigit(CharAt(t, 1)) THEN LStrip(LStripDigits(t)) ELSE s

\* text.match(/(\d{3,4})/): the first run of three digits, with a fourth one
\* when it follows; "" when there is none
Digits34(s) ==
    LET hits == {i \in 1..Len(s) : i + 2 <= Len(s)
                                   /\ \A j \in i..(i + 2) : IsDigit(CharAt(s, j))}
        i == CHOOSE k \in hits : \A j \in hits : k <= j
    IN  IF hits = {} THEN ""
        ELSE IF i + 3 <= Len(s) /\ IsDigit(CharAt(s, i + 3)) THEN SubSeq(s, i, i + 3)
        ELSE SubSeq(s, i, i + 2)

----------------------------------------------------------------------------
(* Python dicts *)

EmptyDict == <<>>

Put(d, k, v) == [x \in (DOMAIN d) \cup {k} |-> IF x = k THEN v ELSE d[x]]

Has(d, k) == k \in DOMAIN d

----------------------------------------------------------------------------
(* What page.evaluate and re.search return *)

\* JavaScript null / Python None
Null == [null |-> TRUE]

Candidate(m, sc) == [model |-> m, score |-> sc]

\* the longest prefix of s of at most n characters none of which is in stop:
\* what [^...]{0,n} matches at the start of s
RECURSIVE TakeUntil(_, _, _)
TakeUntil(s, stop, n) ==
    IF n = 0 \/ s = "" \/ CharAt(s, 1) \in stop THEN ""
    ELSE CharAt(s, 1) \o TakeUntil(From(s, 2), stop, n - 1)

\* text.match(new RegExp(kw + '[^...]{0,n}', 'i'))[0], "" for no match; kw is
\* given in lower case
MatchAfter(text, kw, stop, n) ==
    LET i == IndexOf(Lower(text), kw)
    IN  IF i = 0 THEN ""
        ELSE SubSeq(text, i, i + Len(kw) - 1) \o TakeUntil(From(text, i + Len(kw)), stop, n)

RECURSIVE TakeDigitsDots(_)
TakeDigitsDots(s) ==
    IF s # "" /\ (IsDigit(CharAt(s, 1)) \/ CharAt(s, 1) = ".")
    THEN CharAt(s, 1) \o TakeDigitsDots(From(s, 2))
    ELSE ""

\* text.match(/(kw[\s-]?[\d.]+[^\n,]{0,n})/i)[1] (sep = TRUE) and
\* text.match(/(kw[\d.]+[^\n,]{0,n})/i)[1] (sep = FALSE), "" for no match
MatchVersioned(text, kw, sep, n) ==
    LET low == Lower(text)
        Rest(i) == From(text, i + Len(kw))
        Skip(i) == IF sep /\ Rest(i) # "" /\ (IsSpace(CharAt(Rest(i), 1)) \/ CharAt(Rest(i), 1) = "-")
                      /\ TakeDigitsDots(From(Rest(i), 2)) # ""
                   THEN 1 ELSE 0
        Num(i) == TakeDigitsDots(From(Rest(i), 1 + Skip(i)))
        hits == {i \in 1..Len(text) : i + Len(kw) - 1 <= Len(text)
                                      /\ SubSeq(low, i, i + Len(kw) - 1) = kw
                                      /\ Num(i) # ""}
        i == CHOOSE k \in hits : \A j \in hits : k <= j
        upto == i + Len(kw) + Skip(i) + Len(Num(i))
    IN  IF hits = {} THEN ""
        ELSE SubSeq(text, i, upto - 1) \o TakeUntil(From(text, upto), {"\n", ","}, n)

\* the first of the matches that is not "", "" when there is none
RECURSIVE FirstMatch(_)
FirstMatch(ms) ==
    IF ms = <<>> THEN "" ELSE IF Head(ms) # "" THEN Head(ms) ELSE FirstMatch(Tail(ms))

\* re.sub(phrase + '.*$', '', s, flags=re.IGNORECASE), phrase in lower case:
\* '.' stops at a line break and '$' is the end of the text
SubToEnd(s, phrase) ==
    LET low == Lower(s)
        hits == {i \in 1..Len(s) : i + Len(phrase) - 1 <= Len(s)
                                   /\ SubSeq(low, i, i + Len(phrase) - 1) = phrase
                                   /\ ~Includes(From(s, i + Len(phrase)), "\n")}
    IN  IF hits = {} THEN s ELSE CutAt(s, CHOOSE i \in hits : \A j \in hits : i <= j)

RECURSIVE SpaceRunStart(_, _)
SpaceRunStart(s, k) ==
    IF k > 1 /\ IsSpace(CharAt(s, k - 1)) THEN SpaceRunStart(s, k - 1) ELSE k

\* re.sub(r'\s*\|\s*.*$', '', s)
SubPipeToEnd(s) ==
    LET hits == {k \in 1..Len(s) : CharAt(s, k) = "|"
                                   /\ ~Includes(LStrip(From(s, k + 1)), "\n")}
    IN  IF hits = {} THEN s
        ELSE CutAt(s, SpaceRunStart(s, CHOOSE k \in hits : \A j \in hits : k <= j))

clean_model_name(text) ==
    IF text = "" THEN ""
    ELSE LET r1 == SubToEnd(text, EmDash \o " see how they compare")
             r2 == SubToEnd(r1, "see how they compare")
             r3 == SubPipeToEnd(r2)
             result == Trim(RStripChars(Trim(r3), {EmDash, "-", "|"}))
         IN  Substring(result, 40)

----------------------------------------------------------------------------
(* LMArena: the script scrape_lmarena evaluates in the page *)

\* A page as the scripts see it: the words of the Cloudflare test found in its
\* (lower-cased) content, the cells of the first "table tbody tr" (has_row
\* says whether there is one), the texts of the links the second option of
\* the LMArena script selects, the text the patterns of its third and fourth
\* options match, the tables (each with the texts of its header row and of
\* the cells of its "tbody tr" rows) and document.body.innerText.
Page(words, has_row, cells, links, pattern, tables, body) ==
    [words |-> words, has_row |-> has_row, cells |-> cells, links |-> links,
     pattern |-> pattern, tables |-> tables, body |-> body]

\* about:blank
BlankPage == Page({}, FALSE, <<>>, <<>>, "", <<>>, "")

LmarenaPage(words, has_row, cells, links, pattern) ==
    Page(words, has_row, cells, links, pattern, <<>>, "")

RECURSIVE lmarena_score(_, _)
lmarena_score(cells, i) ==
    IF i > Len(cells) THEN ""
    ELSE IF Digits34(cells[i]) # "" THEN Digits34(cells[i]) \o " Elo"
    ELSE lmarena_score(cells, i + 1)

RECURSIVE lmarena_link(_)
lmarena_link(links) ==
    IF links = <<>> THEN ""
    ELSE LET text == Trim(Head(links))
         IN  IF text # "" /\ Len(text) > 3 /\ Len(text) < 50 /\ ~Includes(text, "View")
             THEN text
             ELSE lmarena_link(Tail(links))

lmarena_evaluate(doc) ==
    LET cell == IF Len(doc.cells) >= 1 THEN doc.cells[1] ELSE ""
        model == Trim(StripRank(FirstLine(Trim(cell))))
    IN  IF doc.has_row /\ model # "" /\ Len(model) > 2
        THEN Candidate(Substring(model, 40), lmarena_score(doc.cells, 2))
        ELSE IF lmarena_link(doc.links) # ""
        THEN Candidate(Substring(lmarena_link(doc.links), 40), "")
        ELSE IF doc.pattern # ""
        THEN Candidate(Substring(Trim(doc.pattern), 40), "")
        ELSE Null

\* 'cloudflare' in content or ('security' in content and 'verify' in content)
lmarena_cloudflare(doc) ==
    "cloudflare" \in doc.words \/ ("security" \in doc.words /\ "verify" \in doc.words)

----------------------------------------------------------------------------
(* LiveBench: the script scrape_livebench evaluates in the page *)

LivebenchPage(tables, body) == Page({}, FALSE, <<>>, <<>>, "", tables, body)

Table(header, rows) == [header |-> header, rows |-> rows]

\* categoryMap, in the order of its entries
categoryMap ==
    << <<"global", "overall">>, <<"average", "overall">>, <<"reasoning", "reasoning">>,
       <<"coding", "coding">>, <<"agentic", "coding">>, <<"math", "math">>,
       <<"mathematics", "math">> >>

LivebenchCats == {categoryMap[i][2] : i \in DOMAIN categoryMap}

\* table.querySelectorAll('tr').length of a table with one header row
TrCount(t) == 1 + Len(t.rows)

\* the first table with more than two rows, Null when there is none
RECURSIVE mainTable(_)
mainTable(tables) ==
    IF tables = <<>> THEN Null
    ELSE IF TrCount(Head(tables)) > 2 THEN Head(tables)
    ELSE mainTable(Tail(tables))

livebench_headers(t) == [i \in DOMAIN t.header |-> Lower(Trim(t.header[i]))]

\* headers.forEach((h, idx) => ...): the column of each category, counted
\* from 0; an index of 0 is falsy and is overwritten by a later header
RECURSIVE columnIndices(_, _, _)
columnIndices(headers, i, cols) ==
    IF i > Len(headers) THEN cols
    ELSE LET hit == {c \in LivebenchCats :
                        /\ \E k \in DOMAIN categoryMap :
                              categoryMap[k][2] = c /\ Includes(headers[i], categoryMap[k][1])
                        /\ (~Has(cols, c) \/ cols[c] = 0)}
         IN  columnIndices(headers, i + 1,
                 [c \in (DOMAIN cols) \cup hit |-> IF c \in hit THEN i - 1 ELSE cols[c]])

\* the last header holding 'model' or 'name', counted from 0; 0 when none does
modelColIdx(headers) ==
    LET hits == {i \in DOMAIN headers : Includes(headers[i], "model") \/ Includes(headers[i], "name")}
    IN  IF hits = {} THEN 0 ELSE (CHOOSE i \in hits : \A j \in hits : j <= i) - 1

\* valueText.match(/([\d.]+)/)[1], "" for no match
NumberToken(s) ==
    LET hits == {i \in 1..Len(s) : IsDigit(CharAt(s, i)) \/ CharAt(s, i) = "."}
    IN  IF hits = {} THEN ""
        ELSE TakeDigitsDots(From(s, CHOOSE i \in hits : \A j \in hits : i <= j))

RECURSIVE TakeDigits(_)
TakeDigits(s) ==
    IF s # "" /\ IsDigit(CharAt(s, 1)) THEN CharAt(s, 1) \o TakeDigits(From(s, 2)) ELSE ""

RECURSIVE ToNat(_)
ToNat(ds) ==
    IF ds = "" THEN 0
    ELSE 10 * ToNat(SubSeq(ds, 1, Len(ds) - 1)) + (IndexOf("0123456789", CharAt(ds, Len(ds))) - 1)

\* parseFloat of a run of digits and dots, in hundredths (further decimals
\* are cut); NaN is -1, which is greater than no maxVal
parseFloat(tok) ==
    LET int == TakeDigits(tok)
        rest == From(tok, Len(int) + 1)
        frac == IF rest # "" /\ CharAt(rest, 1) = "." THEN TakeDigits(From(rest, 2)) ELSE ""
    IN  IF int = "" /\ frac = "" THEN -1
        ELSE 100 * ToNat(int) + ToNat(Substring(frac \o "00", 2))

\* rows.forEach(row => ...) for the column colIdx: the state is
\* [maxVal, topModel, topScore], topModel "" standing for null
RECURSIVE topOfColumn(_, _, _, _)
topOfColumn(rows, colIdx, mIdx, acc) ==
    IF rows = <<>> THEN acc
    ELSE LET cells == Head(rows)
             modelName == IF mIdx + 1 <= Len(cells) THEN FirstLine(Trim(cells[mIdx + 1])) ELSE ""
             valueText == Trim(cells[colIdx + 1])
             tok == NumberToken(valueText)
             val == parseFloat(tok)
         IN  IF Len(cells) <= colIdx THEN topOfColumn(Tail(rows), colIdx, mIdx, acc)
             ELSE IF tok # "" /\ modelName # "" /\ val > acc.maxVal
             THEN topOfColumn(Tail(rows), colIdx, mIdx,
                      [maxVal |-> val, topModel |-> Substring(modelName, 40), topScore |-> tok])
             ELSE topOfColumn(Tail(rows), colIdx, mIdx, acc)

\* const models = ['Claude 4.5', 'GPT-5.2', 'Gemini 3']: the text fallback
livebench_text(body) ==
    IF Includes(body, "Claude 4.5") THEN "Claude 4.5"
    ELSE IF Includes(body, "GPT-5.2") THEN "GPT-5.2"
    ELSE IF Includes(body, "Gemini 3") THEN "Gemini 3"
    ELSE ""

\* the dict the script returns: category -> {model, score}
livebench_evaluate(doc) ==
    LET t == mainTable(doc.tables)
        headers == livebench_headers(t)
        cols == columnIndices(headers, 1, EmptyDict)
        top(c) == topOfColumn(t.rows, cols[c], modelColIdx(headers),
                              [maxVal |-> -1, topModel |-> "", topScore |-> ""])
        found == {c \in DOMAIN cols : top(c).topModel # ""}
        byTable == [c \in found |-> Candidate(top(c).topModel, top(c).topScore)]
    IN  IF doc.tables = <<>> \/ t = Null THEN EmptyDict
        ELSE IF t.rows = <<>> THEN EmptyDict
        ELSE IF found # {} THEN byTable
        ELSE IF livebench_text(doc.body) # ""
        THEN [c \in {"overall"} |-> Candidate(livebench_text(doc.body), "")]
        ELSE EmptyDict

----------------------------------------------------------------------------
(* OpenRouter, Artificial Analysis: the scripts evaluated in the page, over *)
(* document.body.innerText                                                  *)

LineStop == {"\n", ","}

openrouter_evaluate(text) ==
    LET m == FirstMatch(<< MatchVersioned(text, "gemini", TRUE, 25),
                           MatchAfter(text, "claude", LineStop, 30),
                           MatchVersioned(text, "gpt-", FALSE, 25),
                           MatchAfter(text, "flux", LineStop, 20),
                           MatchAfter(text, "dall-e", LineStop, 15),
                           MatchAfter(text, "midjourney", LineStop, 15) >>)
    IN  IF m = "" THEN Null ELSE Candidate(Substring(Trim(m), 35), "")

RECURSIVE MatchEach(_, _, _, _)
MatchEach(text, patterns, stop, n) ==
    IF patterns = <<>> THEN <<>>
    ELSE <<MatchAfter(text, Head(patterns), stop, n)>> \o MatchEach(text, Tail(patterns), stop, n)

aa_llm_evaluate(text) ==
    LET m == FirstMatch(MatchEach(text,
                 <<"gemini 3", "gemini-3", "claude", "gpt-5", "gpt-4", "deepseek">>, LineStop, 25))
    IN  IF m = "" THEN Null ELSE Candidate(Substring(Trim(m), 35), "")

aa_image_evaluate(text) ==
    LET m == FirstMatch(MatchEach(text,
                 <<"flux", "dall-e", "midjourney", "stable diffusion", "imagen", "ideogram">>,
                 LineStop, 20))
    IN  IF m = "" THEN Null ELSE Candidate(Substring(Trim(m), 35), "")

----------------------------------------------------------------------------
(* LLM-Stats: the search scrape_llm_stats runs over resp.text *)

llm_stats_patterns(cat) ==
    IF cat = "image"
    THEN <<"flux", "dall-e", "midjourney", "stable diffusion", "imagen", "ideogram">>
    ELSE <<"gemini 3", "gemini 2", "claude", "gpt-5", "gpt-4">>

\* the first pattern that matches decides; Null when none does
llm_stats_search(cat, text) ==
    LET m == FirstMatch(MatchEach(text, llm_stats_patterns(cat),
                                  {"\n", ",", "<", ">", EmDash}, 20))
    IN  IF m = "" THEN Null ELSE Candidate(clean_model_name(m), "")

----------------------------------------------------------------------------
(* The sources, their URLs, and what the network may answer *)

Sources == <<"lmarena", "livebench", "openrouter", "artificial_analysis", "llm_stats">>

SourceSet == {Sources[i] : i \in DOMAIN Sources}

\* `leaderboards` of scrape_lmarena, in the order of the dict
leaderboards ==
    << <<"text", "https://lmarena.ai/leaderboard/text">>,
       <<"coding", "https://lmarena.ai/leaderboard/webdev">>,
       <<"vision", "https://lmarena.ai/leaderboard/vision">>,
       <<"text_to_image", "https://lmarena.ai/leaderboard/text-to-image">>,
       <<"text_to_video", "https://lmarena.ai/leaderboard/text-to-video">>,
       <<"image_edit", "https://lmarena.ai/leaderboard/image-edit">> >>

livebench_url == "https://livebench.ai/#/"

\* `urls` of scrape_openrouter
openrouter_urls ==
    << <<"overall", "https://openrouter.ai/rankings">>,
       <<"coding", "https://openrouter.ai/rankings/programming">>,
       <<"image", "https://openrouter.ai/rankings/images">> >>

\* `urls` of scrape_artificial_analysis: the two the adapter loads
aa_urls ==
    << <<"overall", "https://artificialanalysis.ai/leaderboards/models">>,
       <<"image", "https://artificialanalysis.ai/text-to-image">> >>

\* `urls` of scrape_llm_stats
llm_stats_urls ==
    << <<"overall", "https://llm-stats.com/leaderboards/llm-leaderboard">>,
       <<"coding", "https://llm-stats.com/leaderboards/best-ai-for-coding">>,
       <<"math", "https://llm-stats.com/leaderboards/best-ai-for-math">>,
       <<"image", "https://llm-stats.com/leaderboards/best-ai-for-image-generation">> >>

UrlsOf(src) ==
    CASE src = "lmarena" -> leaderboards
      [] src = "livebench" -> << <<"page", livebench_url>> >>
      [] src = "openrouter" -> openrouter_urls
      [] src = "artificial_analysis" -> aa_urls
      [] src = "llm_stats" -> llm_stats_urls

\* a request is a source and the key of one of its URLs
Requests == UNION {{<<src, UrlsOf(src)[i][1]>> : i \in DOMAIN UrlsOf(src)} : src \in SourceSet}

----------------------------------------------------------------------------
(* The pages of the model.  Each source has a usual page per request and a *)
(* few others that take the adapter down its other paths.                  *)

TextPage(body) == Page({}, FALSE, <<>>, <<>>, "", <<>>, body)

Response(status, text) == [status |-> status, text |-> text]

LmTopName(name) ==
    CASE name = "text" -> "Gemini 3 Pro"
      [] name = "coding" -> "Claude Opus 4.5 (thinking)"
      [] name = "vision" -> "GPT-5.2 High"
      [] name = "text_to_image" -> "Flux 2 Pro"
      [] name = "text_to_video" -> "Veo 3.1"
      [] name = "image_edit" -> "Midjourney V7 Edit"

LmTop(name) ==
    LmarenaPage({}, TRUE, <<"#1 " \o LmTopName(name) \o "\nGoogle", "Proprietary", "1501">>, <<>>, "")

LmCloudflare == LmarenaPage({"cloudflare"}, FALSE, <<>>, <<>>, "")

LmVerify == LmarenaPage({"security", "verify"}, FALSE, <<>>, <<>>, "")

LmBlank == LmarenaPage({"security"}, FALSE, <<>>, <<>>, "")

\* the first cell holds the rank alone: the second option finds a link
LmRank == LmarenaPage({}, TRUE, <<"1", "GPT-5.2 High", "1480">>, <<"View all", "GPT-5.2 High">>, "")

\* no table and no link: the fourth option's pattern finds "1 veo 3"
LmPattern == LmarenaPage({}, FALSE, <<>>, <<"x">>, "veo 3 ")

LmScript == LmarenaPage({}, TRUE, <<"<script>alert(1)</script>", "98">>, <<>>, "")

LmLong ==
    LmarenaPage({}, TRUE, <<"Gemini 3 Pro Preview Experimental 2026-01 Thinking", "1499">>, <<>>, "")

LmarenaPages(name) ==
    {LmTop(name), LmCloudflare, LmVerify, LmBlank, LmRank, LmPattern, LmScript, LmLong}

LbTop ==
    LivebenchPage(
        <<Table(<<"Model", "Global Average", "Reasoning Average", "Coding Average", "Mathematics">>,
                << <<"Claude 4.5 Opus\nAnthropic", "76.4", "80.1", "79", "85.25">>,
                   <<"GPT-5.2", "75.9", "82", "70.5", "90.1">> >>)>>,
        "LiveBench")

\* no table: the script returns before its text fallback
LbNoTable == LivebenchPage(<<>>, "GPT-5.2 leads")

\* a table whose cells hold no number: the text fallback decides
LbNoScores ==
    LivebenchPage(<<Table(<<"Model", "Coding">>, << <<"Claude 4.5", "-">>, <<"GPT-5.2", "n/a">> >>)>>,
                  "Claude 4.5 and GPT-5.2")

\* a table and a text with nothing to find
LbNothing == LivebenchPage(<<Table(<<"Model", "Coding">>, << <<"a", "-">>, <<"b", "-">> >>)>>, "")

\* no header names the model column: the rank column is taken for it
LbRank ==
    LivebenchPage(<<Table(<<"Rank", "Organization", "Coding">>,
                          << <<"1", "Anthropic", "79.2">>, <<"2", "OpenAI", "70">> >>)>>, "")

LbScript ==
    LivebenchPage(<<Table(<<"Model", "Math">>,
                          << <<"<script>alert(1)</script>", "91">>, <<"GPT-5.2", "90.1">> >>)>>, "")

LivebenchPages == {LbTop, LbNoTable, LbNoScores, LbNothing, LbRank, LbScript}

OrTop(cat) ==
    CASE cat = "overall" -> TextPage("Leaderboard\n1.\nClaude Sonnet 4.5\nby anthropic")
      [] cat = "coding" -> TextPage("Programming\n1. gpt-5.2 codex, by openai")
      [] cat = "image" -> TextPage("Images\nGemini 2.5 Flash Image Preview (Nano Banana)\nby google")

OrNone == TextPage("Rankings")

OpenrouterPages(cat) == {OrTop(cat), OrNone}

AaTop(key) ==
    CASE key = "overall" -> TextPage("Intelligence Index\n1 GPT-5.2 (xhigh)\n2 Claude Opus 4.5")
      [] key = "image" -> TextPage("Text to Image Arena\n FLUX.2 [pro] , 1180")

AaNone == TextPage("Loading")

AaPages(key) == {AaTop(key), AaNone}

LlmTop(cat) ==
    CASE cat = "overall" -> Response(200, "<title>Gemini 3 Pro | LLM Stats</title>")
      [] cat = "coding" -> Response(200, "<h1>Claude Opus 4.5 ~ See how they compare</h1>")
      [] cat = "math" -> Response(200, "<td>GPT-5.2 -</td>")
      [] cat = "image" -> Response(200, "<a>Flux 2 Pro & Schnell</a>")

LlmNone == Response(200, "<html></html>")

LlmError == Response(503, "Claude is unavailable")

LlmResponses(cat) == {LlmTop(cat), LlmNone, LlmError}

----------------------------------------------------------------------------
(* What the scripts and the search return on each page of the model.  The    *)
(* tables are constants: TLC evaluates each script once per page.            *)

AllPages ==
    {BlankPage} \cup LivebenchPages
    \cup UNION {LmarenaPages(leaderboards[i][1]) : i \in DOMAIN leaderboards}
    \cup UNION {OpenrouterPages(openrouter_urls[i][1]) : i \in DOMAIN openrouter_urls}
    \cup UNION {AaPages(aa_urls[i][1]) : i \in DOMAIN aa_urls}

AllResponses ==
    {Response(0, "")} \cup UNION {LlmResponses(llm_stats_urls[i][1]) : i \in DOMAIN llm_stats_urls}

lmarena_data == [doc \in AllPages |-> lmarena_evaluate(doc)]

livebench_data == [doc \in AllPages |-> livebench_evaluate(doc)]

openrouter_data == [doc \in AllPages |-> openrouter_evaluate(doc.body)]

aa_llm_data == [doc \in AllPages |-> aa_llm_evaluate(doc.body)]

aa_image_data == [doc \in AllPages |-> aa_image_evaluate(doc.body)]

llm_stats_data ==
    [cat \in {llm_stats_urls[i][1] : i \in DOMAIN llm_stats_urls} |->
        [resp \in AllResponses |-> llm_stats_search(cat, resp.text)]]

----------------------------------------------------------------------------
(* Answers of the network *)

\* fail names the operation of the request that raises ("none": no one does);
\* doc is the page (for LLM-Stats the response) the request is answered with
Outcome(fail, doc) == [fail |-> fail, doc |-> doc]

NotAsked == Outcome("unasked", BlankPage)

Usual(req) ==
    CASE req[1] = "lmarena" -> Outcome("none", LmTop(req[2]))
      [] req[1] = "livebench" -> Outcome("none", LbTop)
      [] req[1] = "openrouter" -> Outcome("none", OrTop(req[2]))
      [] req[1] = "artificial_analysis" -> Outcome("none", AaTop(req[2]))
      [] req[1] = "llm_stats" -> Outcome("none", LlmTop(req[2]))

\* the source is unreachable: the first operation of the request raises
Outage(req) ==
    IF req[1] = "llm_stats" THEN Outcome("get", Response(0, "")) ELSE Outcome("goto", BlankPage)

Outcomes(req) ==
    {Outage(req)} \cup
    CASE req[1] = "lmarena" ->
             {Outcome("content", LmTop(req[2])), Outcome("evaluate", LmTop(req[2]))}
             \cup {Outcome("none", d) : d \in LmarenaPages(req[2])}
      [] req[1] = "livebench" ->
             {Outcome(f, LbTop) : f \in {"click", "scroll", "evaluate"}}
             \cup {Outcome("none", d) : d \in LivebenchPages}
      [] req[1] = "openrouter" ->
             {Outcome("evaluate", OrTop(req[2]))} \cup {Outcome("none", d) : d \in OpenrouterPages(req[2])}
      [] req[1] = "artificial_analysis" ->
             {Outcome("evaluate", AaTop(req[2]))} \cup {Outcome("none", d) : d \in AaPages(req[2])}
      [] req[1] = "llm_stats" ->
             {Outcome("none", d) : d \in LlmResponses(req[2])}

usual == [req \in Requests |-> Usual(req)]

outcomes == [req \in Requests |-> Outcomes(req)]

\* The answers a request may get: in the second of two runs what the first
\* run got; from a source that is down, the outage; otherwise the usual page,
\* or any other answer while fewer than MaxDev answers were unusual.
Answers(req) ==
    IF runNo = 2 THEN {served[req]}
    ELSE IF req[1] \in down THEN {Outage(req)}
    ELSE IF devs < MaxDev THEN outcomes[req]
    ELSE {usual[req]}

AllUrls == UNION {{UrlsOf(src)[i][2] : i \in DOMAIN UrlsOf(src)} : src \in SourceSet}

\* the request req for url is answered by o
Asked(req, url, o) ==
    /\ served' = [served EXCEPT ![req] = o]
    /\ requests' = [requests EXCEPT ![url] = @ + 1]
    /\ devs' = IF runNo = 1 /\ req[1] \notin down /\ o # usual[req] THEN devs + 1 ELSE devs

\* a navigation that leaves the page as it was
goto_failed(o) == page

\* page.goto(url): the page holds the document served, or what it held when
\* the navigation raises
goto(o) == IF o.fail = "goto" THEN page ELSE o.doc

----------------------------------------------------------------------------
(* The adapters *)

\* {"model": "—", "score": ""}
NotAvailable == Candidate(EmDash, "")

\* the dict as the adapter before left it
results_kept == results

\* `results = {}` at the start of an adapter; later the dict as it stands
local_results == IF idx = 1 THEN EmptyDict ELSE results

\* the length a model name must exceed to be kept
MinModelLen == 2

\* whatever the script returned
lmarena_accept_any(d) == TRUE

\* if data and data.get("model") and len(data["model"]) > 2
lmarena_accept(d) == d # Null /\ d.model # "" /\ Len(d.model) > MinModelLen

\* a loop that makes the pass over url once more when its first one raised
advance_retry(o, url) == IF o.fail \notin {"none"} /\ requests[url] = 0 THEN idx ELSE idx + 1

\* `for ... in urls.items()`: the loop goes on to the next entry whatever
\* the pass over url, answered by o, did
advance(o, url) == idx + 1

\* the body of scrape_lmarena's loop: what results[name] is set to
lmarena_category(o, doc) ==
    IF o.fail \in {"goto", "content"} THEN NotAvailable
    ELSE IF lmarena_cloudflare(doc) THEN NotAvailable
    ELSE IF o.fail = "evaluate" THEN NotAvailable
    ELSE IF lmarena_accept(lmarena_data[doc]) THEN lmarena_data[doc]
    ELSE NotAvailable

\* one pass of the loop of scrape_lmarena; the last one returns to run()
scrape_lmarena ==
    /\ pc = "lmarena"
    /\ LET name == leaderboards[idx][1]
           req == <<"lmarena", name>>
       IN  \E o \in Answers(req) :
               LET res == Put(local_results, name, lmarena_category(o, goto(o)))
               IN  /\ Asked(req, leaderboards[idx][2], o)
                   /\ page' = goto(o)
                   /\ results' = res
                   /\ IF idx < Len(leaderboards)
                      THEN idx' = advance(o, leaderboards[idx][2]) /\ UNCHANGED <<pc, all_results>>
                      ELSE /\ all_results' = Put(all_results, "lmarena", res)
                           /\ pc' = "livebench"
                           /\ idx' = 1
    /\ UNCHANGED <<self_data, browser, down, files, exit_code, runNo, first>>

\* the try block of scrape_livebench: the dict `results` ends as
livebench_results(o, doc) ==
    IF o.fail \in {"goto", "scroll", "evaluate"} THEN EmptyDict
    ELSE livebench_data[doc]

scrape_livebench ==
    /\ pc = "livebench"
    /\ LET req == <<"livebench", "page">>
       IN  \E o \in Answers(req) :
               LET res == livebench_results(o, goto(o))
               IN  /\ Asked(req, livebench_url, o)
                   /\ page' = goto(o)
                   /\ results' = res
                   /\ all_results' = Put(all_results, "livebench", res)
    /\ pc' = "openrouter"
    /\ idx' = 1
    /\ UNCHANGED <<self_data, browser, down, files, exit_code, runNo, first>>

\* a loop body that stores what the script returned, null included
openrouter_store(res, cat, o, doc) ==
    IF o.fail \in {"goto", "evaluate"} THEN res ELSE Put(res, cat, openrouter_data[doc])

\* the body of scrape_openrouter's loop: `results` after it
openrouter_category(res, cat, o, doc) ==
    IF o.fail \in {"goto", "evaluate"} THEN res
    ELSE IF openrouter_data[doc] # Null THEN Put(res, cat, openrouter_data[doc])
    ELSE res

scrape_openrouter ==
    /\ pc = "openrouter"
    /\ LET cat == openrouter_urls[idx][1]
           req == <<"openrouter", cat>>
       IN  \E o \in Answers(req) :
               LET res == openrouter_category(local_results, cat, o, goto(o))
               IN  /\ Asked(req, openrouter_urls[idx][2], o)
                   /\ page' = goto(o)
                   /\ results' = res
                   /\ IF idx < Len(openrouter_urls)
                      THEN idx' = advance(o, openrouter_urls[idx][2]) /\ UNCHANGED <<pc, all_results>>
                      ELSE /\ all_results' = Put(all_results, "openrouter", res)
                           /\ pc' = "artificial_analysis"
                           /\ idx' = 1
    /\ UNCHANGED <<self_data, browser, down, files, exit_code, runNo, first>>

\* the first try block of scrape_artificial_analysis: `results` after it
aa_llm(res, o, doc) ==
    IF o.fail \in {"goto", "evaluate"} \/ aa_llm_data[doc] = Null THEN res
    ELSE Put(Put(Put(res, "overall", aa_llm_data[doc]), "coding", aa_llm_data[doc]),
             "math", aa_llm_data[doc])

\* a second try block that starts the dict afresh when it raises
aa_image_afresh(res, o, doc) ==
    IF o.fail \in {"goto", "evaluate"} THEN EmptyDict
    ELSE IF aa_image_data[doc] = Null THEN res
    ELSE Put(res, "image", aa_image_data[doc])

\* the second try block
aa_image(res, o, doc) ==
    IF o.fail \in {"goto", "evaluate"} \/ aa_image_data[doc] = Null THEN res
    ELSE Put(res, "image", aa_image_data[doc])

\* one of the two try blocks of scrape_artificial_analysis; the second one
\* returns to run()
scrape_artificial_analysis ==
    /\ pc = "artificial_analysis"
    /\ LET key == aa_urls[idx][1]
           req == <<"artificial_analysis", key>>
       IN  \E o \in Answers(req) :
               LET res == IF idx = 1 THEN aa_llm(local_results, o, goto(o))
                          ELSE aa_image(local_results, o, goto(o))
               IN  /\ Asked(req, aa_urls[idx][2], o)
                   /\ page' = goto(o)
                   /\ results' = res
                   /\ IF idx < Len(aa_urls)
                      THEN idx' = idx + 1 /\ UNCHANGED <<pc, all_results>>
                      ELSE /\ all_results' = Put(all_results, "artificial_analysis", res)
                           /\ pc' = "close"
                           /\ idx' = 1
    /\ UNCHANGED <<self_data, browser, down, files, exit_code, runNo, first>>

\* the body of scrape_llm_stats's loop: `results` after it
llm_stats_category(res, cat, o) ==
    IF o.fail = "get" \/ o.doc.status # 200 \/ llm_stats_data[cat][o.doc] = Null THEN res
    ELSE Put(res, cat, llm_stats_data[cat][o.doc])

\* one pass of the loop of scrape_llm_stats; the last one returns to run(),
\* which returns all_results
scrape_llm_stats ==
    /\ pc = "llm_stats"
    /\ LET cat == llm_stats_urls[idx][1]
           req == <<"llm_stats", cat>>
       IN  \E o \in Answers(req) :
               LET res == llm_stats_category(local_results, cat, o)
               IN  /\ Asked(req, llm_stats_urls[idx][2], o)
                   /\ results' = res
                   /\ IF idx < Len(llm_stats_urls)
                      THEN idx' = advance(o, llm_stats_urls[idx][2]) /\ UNCHANGED <<pc, all_results>>
                      ELSE /\ all_results' = Put(all_results, "llm_stats", res)
                           /\ pc' = "returned"
                           /\ idx' = 1
    /\ UNCHANGED <<self_data, browser, page, down, files, exit_code, runNo, first>>

----------------------------------------------------------------------------
(* run() *)

\* all_results = {}; with sync_playwright() as p: browser = p.chromium.launch();
\* page = browser.new_page().  Nothing catches what the launch raises: it
\* leaves run() and main(), and the interpreter exits with code 1.
run_launch ==
    /\ pc = "run"
    /\ all_results' = EmptyDict
    /\ \E ok \in IF runNo = 2 THEN {TRUE} ELSE BOOLEAN :
           IF ok
           THEN /\ browser' = "open"
                /\ page' = BlankPage
                /\ pc' = "lmarena"
                /\ idx' = 1
                /\ UNCHANGED exit_code
           ELSE /\ pc' = "crashed"
                /\ exit_code' = 1
                /\ UNCHANGED <<browser, page, idx>>
    /\ UNCHANGED <<results, self_data, served, down, devs, requests, files, runNo, first>>

\* run() going on to LLM-Stats with the browser left as it is
browser_left_open ==
    /\ pc = "close"
    /\ pc' = "llm_stats"
    /\ UNCHANGED <<idx, results, all_results, self_data, browser, page, served, down, devs,
                   requests, files, exit_code, runNo, first>>

\* browser.close()
browser_close ==
    /\ pc = "close"
    /\ browser' = "closed"
    /\ pc' = "llm_stats"
    /\ UNCHANGED <<idx, results, all_results, self_data, page, served, down, devs, requests,
                   files, exit_code, runNo, first>>

----------------------------------------------------------------------------
(* generate_html *)

\* d.get(k, default)
Get(d, k, default) == IF Has(d, k) THEN d[k] ELSE default

NaCell == "<td class=\"na\">" \o EmDash \o "</td>"

color_class(m) ==
    LET model_lower == Lower(m)
    IN  IF Includes(model_lower, "gemini") \/ Includes(model_lower, "google") THEN "google"
        ELSE IF Includes(model_lower, "gpt") \/ Includes(model_lower, "openai") THEN "openai"
        ELSE IF Includes(model_lower, "claude") \/ Includes(model_lower, "anthropic") THEN "anthropic"
        ELSE IF Includes(model_lower, "llama") \/ Includes(model_lower, "meta") THEN "meta"
        ELSE IF Includes(model_lower, "deepseek") THEN "deepseek"
        ELSE IF Includes(model_lower, "flux") THEN "flux"
        ELSE IF Includes(model_lower, "midjourney") THEN "midjourney"
        ELSE IF Includes(model_lower, "dall-e") \/ Includes(model_lower, "dalle") THEN "openai"
        ELSE IF Includes(model_lower, "stable") \/ Includes(model_lower, "stability") THEN "stability"
        ELSE IF Includes(model_lower, "ideogram") THEN "ideogram"
        ELSE "default"

\* the model names the scripts and the search find on the pages of the model
Models ==
    {d.model : d \in {lmarena_data[doc] : doc \in AllPages} \ {Null}}
    \cup UNION {{livebench_data[doc][c].model : c \in DOMAIN livebench_data[doc]} : doc \in AllPages}
    \cup {d.model : d \in {openrouter_data[doc] : doc \in AllPages} \ {Null}}
    \cup {d.model : d \in {aa_llm_data[doc] : doc \in AllPages} \ {Null}}
    \cup {d.model : d \in {aa_image_data[doc] : doc \in AllPages} \ {Null}}
    \cup UNION {{d.model : d \in {llm_stats_data[cat][r] : r \in AllResponses} \ {Null}} :
                    cat \in DOMAIN llm_stats_data}

\* color_class on each of them, evaluated once
color_classes == [m \in Models |-> color_class(m)]

color_class_of(m) == IF m \in Models THEN color_classes[m] ELSE color_class(m)

\* the name of the model in full
cell_text_full(m) == m

\* the text the cell shows for the model m: m[:35]
cell_text(m) == Substring(m, 35)

cell(source, key) ==
    LET item == Get(source, key, EmptyDict)
        m0 == Get(item, "model", EmDash)
        m == IF m0 = "" THEN EmDash ELSE m0
        s == Get(item, "score", "")
        score_html == IF s # "" THEN "<span class=\"score\">" \o s \o "</span>" ELSE ""
    IN  IF m = EmDash THEN NaCell
        ELSE "<td><span class=\"model " \o color_class_of(m) \o "\">" \o cell_text(m) \o "</span>"
             \o score_html \o "</td>"

\* the f-string `rows`: per row of the table, the key looked up in each of
\* lmarena, livebench, openrouter, aa and llm_stats; "" where the template
\* holds a literal <td class="na"> cell
rows_template ==
    [Overall |-> <<"text", "overall", "overall", "overall", "overall">>,
     Coding |-> <<"coding", "coding", "coding", "coding", "coding">>,
     Math |-> <<"", "math", "", "math", "math">>,
     Reasoning |-> <<"text", "reasoning", "", "", "">>,
     Image |-> <<"text_to_image", "", "image", "image", "image">>]

\* the rows of the table, each the cells under LMArena, LiveBench,
\* OpenRouter, Artificial Analysis and LLM-Stats; the rest of the document
\* (style, links, date) does not depend on the snapshot
generate_html(snapshot) ==
    [row \in DOMAIN rows_template |->
        [i \in 1..Len(Sources) |->
            IF rows_template[row][i] = "" THEN NaCell
            ELSE cell(Get(snapshot, Sources[i], EmptyDict), rows_template[row][i])]]

----------------------------------------------------------------------------
(* main() *)

JsonFile == "latest_data.json"
HtmlFile == "ai_leaderboard_comparison.html"

\* json.dump(data, f): the file holds the snapshot run() returned
main_write_json ==
    /\ pc = "returned"
    /\ runNo = 1
    /\ files' = Put(files, JsonFile, all_results)
    /\ pc' = "json_written"
    /\ UNCHANGED <<idx, results, all_results, self_data, browser, page, served, down, devs,
                   requests, exit_code, runNo, first>>

\* f.write(generate_html(data)); main() returns and the process ends
main_write_html ==
    /\ pc = "json_written"
    /\ files' = Put(files, HtmlFile, generate_html(all_results))
    /\ pc' = "done"
    /\ exit_code' = 0
    /\ UNCHANGED <<idx, results, all_results, self_data, browser, page, served, down, devs,
                   requests, runNo, first>>

\* run() is called again on the same scraper, the network answering as it did
run_again ==
    /\ pc = "returned"
    /\ runNo = 1
    /\ first' = all_results
    /\ runNo' = 2
    /\ pc' = "run"
    /\ requests' = [u \in AllUrls |-> 0]
    /\ UNCHANGED <<idx, results, all_results, self_data, browser, page, served, down, devs,
                   files, exit_code>>

----------------------------------------------------------------------------
(* The specifications *)

\* self.data as __init__ leaves it
init_data ==
    [k \in {"lmarena", "seal", "openrouter", "artificial_analysis", "llm_stats", "updated_at"} |->
        IF k = "updated_at" THEN "datetime.now().isoformat()" ELSE EmptyDict]

Init ==
    /\ pc = "run"
    /\ idx = 1
    /\ results = EmptyDict
    /\ all_results = EmptyDict
    /\ self_data = init_data
    /\ browser = "none"
    /\ page = BlankPage
    /\ served = [r \in Requests |-> NotAsked]
    /\ down \in {S \in SUBSET SourceSet : Cardinality(S) <= MaxDev}
    /\ devs = Cardinality(down)
    /\ requests = [u \in AllUrls |-> 0]
    /\ files = EmptyDict
    /\ exit_code = -1
    /\ runNo = 1
    /\ first = EmptyDict

scrape ==
    \/ scrape_lmarena
    \/ scrape_livebench
    \/ scrape_openrouter
    \/ scrape_artificial_analysis
    \/ scrape_llm_stats

\* main(): one run, then the two files
Next ==
    \/ run_launch
    \/ scrape
    \/ browser_close
    \/ main_write_json
    \/ main_write_html

Spec == Init /\ [][Next]_vars

\* the program is one sequential process: while a step is possible, it is
\* taken (every operation returns or raises)
SpecLive == Init /\ [][Next]_vars /\ WF_vars(Next)

\* run() twice on one scraper, over the same answers
NextTwice ==
    \/ run_launch
    \/ scrape
    \/ browser_close
    \/ run_again

SpecTwice == Init /\ [][NextTwice]_vars

----------------------------------------------------------------------------
(* Vocabulary of the properties *)

\* the categories each source is set up to report: the keys of the adapter's
\* dict of URLs (for LiveBench, the categories of categoryMap)
Configured(src) ==
    CASE src = "lmarena" -> {leaderboards[i][1] : i \in DOMAIN leaderboards}
      [] src = "livebench" -> LivebenchCats
      [] src = "openrouter" -> {openrouter_urls[i][1] : i \in DOMAIN openrouter_urls}
      [] src = "artificial_analysis" -> {"overall", "coding", "math", "image"}
      [] src = "llm_stats" -> {llm_stats_urls[i][1] : i \in DOMAIN llm_stats_urls}

Returned == pc \in {"returned", "json_written", "done"}

\* What the adapter of src makes of the answers its own requests got, each
\* script reading the page its own request was answered with.
RECURSIVE MadeOf(_, _, _)
MadeOf(src, i, res) ==
    IF i > Len(UrlsOf(src)) THEN res
    ELSE LET key == UrlsOf(src)[i][1]
             o == served[<<src, key>>]
         IN  MadeOf(src, i + 1,
                 CASE src = "lmarena" -> Put(res, key, lmarena_category(o, o.doc))
                   [] src = "livebench" -> livebench_results(o, o.doc)
                   [] src = "openrouter" -> openrouter_category(res, key, o, o.doc)
                   [] src = "artificial_analysis" ->
                          IF i = 1 THEN aa_llm(res, o, o.doc) ELSE aa_image(res, o, o.doc)
                   [] src = "llm_stats" -> llm_stats_category(res, key, o))

\* every request of src was made exactly once
Invoked(src) == \A i \in DOMAIN UrlsOf(src) : requests[UrlsOf(src)[i][2]] = 1

\* d.get("model", "") of an entry of the snapshot
ModelOf(e) == Get(e, "model", "")

----------------------------------------------------------------------------
(* C1 *)

----------------------------------------------------------------------------
(* C2 *)

\* C2: when every operation of one source's adapter raises, nothing escapes
\* into run() (run() is left abnormally only by the launch of the browser,
\* before any request), every adapter after it is still invoked (each URL of
\* each source is requested), and for every other source the snapshot holds
\* exactly what that source's adapter makes of the answers it got itself.
C2_Isolation ==
    /\ pc = "crashed" => \A u \in AllUrls : requests[u] = 0
    /\ Returned =>
           \A y \in down :
               /\ \A s \in SourceSet : Invoked(s)
               /\ \A s \in SourceSet \ {y} :
                      Has(all_results, s) /\ all_results[s] = MadeOf(s, 1, EmptyDict)

\* LiveBench was down for the whole run, and the adapters after it delivered
C2_Witness ==
    /\ pc = "returned"
    /\ down = {"livebench"}
    /\ served[<<"livebench", "page">>].fail = "goto"
    /\ all_results["livebench"] = EmptyDict
    /\ DOMAIN all_results["openrouter"] = Configured("openrouter")
    /\ DOMAIN all_results["llm_stats"] = Configured("llm_stats")

----------------------------------------------------------------------------
(* C3 *)

\* C3, as stated: in every adapter a candidate whose model is no longer than
\* the minimum is rejected, so every entry of the snapshot is the "not
\* available" value or has a model longer than the minimum.
C3_Validated ==
    \A src \in DOMAIN all_results : \A c \in DOMAIN all_results[src] :
        \/ all_results[src][c] = NotAvailable
        \/ Len(ModelOf(all_results[src][c])) > MinModelLen

----------------------------------------------------------------------------
(* C4 *)

Special(s) == Includes(s, "<") \/ Includes(s, ">") \/ Includes(s, "&")

\* C4, as stated: when the model of an entry the table shows contains '<',
\* '>' or '&', the cell written for it does not contain that text verbatim.
C4_Escaped ==
    pc = "done" =>
        \A row \in DOMAIN rows_template : \A i \in 1..Len(Sources) :
            LET key == rows_template[row][i]
                m == ModelOf(Get(all_results[Sources[i]], key, EmptyDict))
            IN  (key # "" /\ m # "" /\ Special(cell_text(m))) =>
                    ~Includes(files[HtmlFile][row][i], cell_text(m))

----------------------------------------------------------------------------
(* C5 *)

\* the column of a source in the table
ColumnOf(src) == CHOOSE i \in 1..Len(Sources) : Sources[i] = src

\* the table generate_html wrote
Table5 == files[HtmlFile]

\* C5, as stated: every result the snapshot holds (an entry that is not the
\* "not available" marker) is shown in a cell of its source's column.
C5_NothingLeftOut ==
    pc = "done" =>
        \A src \in DOMAIN all_results : \A c \in DOMAIN all_results[src] :
            ModelOf(all_results[src][c]) \notin {"", EmDash} =>
                \E row \in DOMAIN Table5 :
                    Includes(Table5[row][ColumnOf(src)], cell_text(ModelOf(all_results[src][c])))

\* the category of src the table shows in the given row; "" when it shows none
ShownIn(row, src) ==
    CASE src = "lmarena" ->
             (CASE row \in {"Overall", "Reasoning"} -> "text"
                [] row = "Coding" -> "coding"
                [] row = "Image" -> "text_to_image"
                [] OTHER -> "")
      [] src = "livebench" ->
             (CASE row = "Overall" -> "overall"
                [] row = "Coding" -> "coding"
                [] row = "Math" -> "math"
                [] row = "Reasoning" -> "reasoning"
                [] OTHER -> "")
      [] src = "openrouter" ->
             (CASE row = "Overall" -> "overall"
                [] row = "Coding" -> "coding"
                [] row = "Image" -> "image"
                [] OTHER -> "")
      [] OTHER ->
             (CASE row = "Overall" -> "overall"
                [] row = "Coding" -> "coding"
                [] row = "Math" -> "math"
                [] row = "Image" -> "image"
                [] OTHER -> "")

\* C5, amended: the table has the rows Overall, Coding, Math, Reasoning and
\* Image and a column per source.  A cell is the "not available" cell when
\* the table shows no category of the source in that row, when the snapshot
\* has no entry for the category shown, or when the entry's model is empty or
\* the marker; otherwise the cell holds the first 35 characters of the
\* entry's model and, when the score is not empty, the score.  LMArena's
\* vision, text_to_video and image_edit are shown in no row, and its text
\* entry is shown in both Overall and Reasoning.
C5_CellsOfTheTable ==
    pc = "done" =>
        /\ DOMAIN Table5 = {"Overall", "Coding", "Math", "Reasoning", "Image"}
        /\ \A row \in DOMAIN Table5 : \A i \in 1..Len(Sources) :
               LET key == ShownIn(row, Sources[i])
                   e == Get(all_results[Sources[i]], key, EmptyDict)
                   m == ModelOf(e)
                   s == Get(e, "score", "")
               IN  IF key = "" \/ m \in {"", EmDash}
                   THEN Table5[row][i] = NaCell
                   ELSE /\ Table5[row][i] # NaCell
                        /\ Includes(Table5[row][i], ">" \o Substring(m, 35) \o "</span>")
                        /\ s # "" => Includes(Table5[row][i],
                                              "<span class=\"score\">" \o s \o "</span>")

\* a table was written with a cell for a result with a score and a "not
\* available" cell for a pair the snapshot lacks
C5_Witness ==
    /\ pc = "done"
    /\ ~Has(all_results["openrouter"], "coding")
    /\ Table5["Coding"][ColumnOf("openrouter")] = NaCell
    /\ Get(all_results["livebench"], "coding", NotAvailable).score # ""
    /\ Table5["Coding"][ColumnOf("livebench")] # NaCell

----------------------------------------------------------------------------
(* C6 *)

\* C6: when run() has returned a second time on the same scraper, the network
\* having answered each request as in the first run, the snapshot is the one
\* the first run returned (a snapshot has no timestamp field).
C6_SameSnapshot == (runNo = 2 /\ pc = "returned") => all_results = first

\* the second run has returned after a first run in which a request failed
\* and others did not
C6_Witness ==
    /\ runNo = 2
    /\ pc = "returned"
    /\ devs > 0
    /\ \E src \in SourceSet : \E c \in DOMAIN first[src] :
           Len(ModelOf(first[src][c])) > MinModelLen
    /\ \E req \in Requests : served[req].fail \notin {"none"}

----------------------------------------------------------------------------
(* C7 *)

\* C7, as stated: the process ends only with exit code 0 and with both files
\* written.
C7_AlwaysCompletes ==
    exit_code # -1 => exit_code = 0 /\ Has(files, JsonFile) /\ Has(files, HtmlFile)

----------------------------------------------------------------------------
(* C8 *)

\* C8, as stated: the snapshot written to latest_data.json has a timestamp
\* field and, besides it, exactly the sources declared at construction.
C8_DeclaredKeys ==
    Has(files, JsonFile) =>
        /\ Has(files[JsonFile], "updated_at")
        /\ DOMAIN files[JsonFile] \ {"updated_at"} = DOMAIN self_data \ {"updated_at"}

----------------------------------------------------------------------------
(* C9 *)

\* C9: in a run no URL is requested more than once, whatever the requests
\* were answered with.
C9_NoRetry == \A u \in AllUrls : requests[u] <= 1

\* run() has returned after a request that raised and one that was answered
\* with a status other than 200 or raised too, each made once
C9_Witness ==
    /\ Returned
    /\ \E src \in SourceSet : \E i \in DOMAIN UrlsOf(src) :
           /\ served[<<src, UrlsOf(src)[i][1]>>].fail \notin {"none"}
           /\ i < Len(UrlsOf(src))
           /\ requests[UrlsOf(src)[i][2]] = 1

----------------------------------------------------------------------------
(* C10 *)

----------------------------------------------------------------------------
(* C11 *)

\* the category has no result: no entry, or the "not available" value
Lacks(src, c) == ~Has(all_results[src], c) \/ all_results[src][c] = NotAvailable

\* the requests of src in which an operation raised
Raised(src) ==
    {i \in DOMAIN UrlsOf(src) : served[<<src, UrlsOf(src)[i][1]>>].fail \notin {"none", "click"}}

\* C11, as stated: a failure for one category affects only that category, so
\* after a run in which one request of a source raised and every other
\* request of that source was answered as usual, at most one of the source's
\* categories has no result.
C11_OneCategoryLost ==
    Returned =>
        \A src \in SourceSet :
            (/\ Cardinality(Raised(src)) = 1
             /\ \A i \in DOMAIN UrlsOf(src) \ Raised(src) :
                    served[<<src, UrlsOf(src)[i][1]>>] = usual[<<src, UrlsOf(src)[i][1]>>])
            => Cardinality({c \in Configured(src) : Lacks(src, c)}) <= 1

\* the categories the request of src under key is the source of
FedBy(src, key) ==
    CASE src = "livebench" -> LivebenchCats
      [] src = "artificial_analysis" /\ key = "overall" -> {"overall", "coding", "math"}
      [] OTHER -> {key}

\* what the pass of the adapter of src over its i-th request yields by itself
AloneOf(src, i) ==
    LET key == UrlsOf(src)[i][1]
        o == served[<<src, key>>]
    IN  CASE src = "lmarena" -> Put(EmptyDict, key, lmarena_category(o, o.doc))
          [] src = "livebench" -> livebench_results(o, o.doc)
          [] src = "openrouter" -> openrouter_category(EmptyDict, key, o, o.doc)
          [] src = "artificial_analysis" ->
                 IF i = 1 THEN aa_llm(EmptyDict, o, o.doc) ELSE aa_image(EmptyDict, o, o.doc)
          [] src = "llm_stats" -> llm_stats_category(EmptyDict, key, o)

\* C11, amended: failures are absorbed per request, not per category.  Every
\* request of every adapter is made whatever the others did, and the
\* categories a request is the source of hold in the returned mapping exactly
\* what that request yields by itself, the other requests of the adapter
\* having no effect on them.  The categories of one request stand or fall
\* together: all of LiveBench's come from its one page, and Artificial
\* Analysis's overall, coding and math from its one models page.
C11_PerRequest ==
    Returned =>
        \A src \in SourceSet :
            /\ Invoked(src)
            /\ \A i \in DOMAIN UrlsOf(src) : \A c \in FedBy(src, UrlsOf(src)[i][1]) :
                   /\ Has(all_results[src], c) = Has(AloneOf(src, i), c)
                   /\ Has(all_results[src], c) => all_results[src][c] = AloneOf(src, i)[c]

\* run() returned after the first request of Artificial Analysis raised: its
\* overall, coding and math are absent and its image is there
C11_Witness ==
    /\ pc = "returned"
    /\ served[<<"artificial_analysis", "overall">>].fail = "goto"
    /\ DOMAIN all_results["artificial_analysis"] = {"image"}
    /\ DOMAIN all_results["openrouter"] = Configured("openrouter")

----------------------------------------------------------------------------
(* C12 *)

\* C12, as stated: a category of LMArena whose page was a Cloudflare page
\* holds a last-known-good model, not an empty or placeholder value.
C12_VerifiedFallback ==
    Has(all_results, "lmarena") =>
        \A name \in Configured("lmarena") :
            (/\ served[<<"lmarena", name>>].fail = "none"
             /\ lmarena_cloudflare(served[<<"lmarena", name>>].doc))
            => (/\ Has(all_results["lmarena"], name)
                /\ all_results["lmarena"][name] # NotAvailable
                /\ Len(ModelOf(all_results["lmarena"][name])) > MinModelLen)

----------------------------------------------------------------------------
(* C13 *)

\* C13, as stated: every operation returning or raising, run() eventually
\* returns, all five adapters invoked, whatever failed.
C13_RunReturns == <>(Returned /\ \A src \in SourceSet : Invoked(src))

----------------------------------------------------------------------------
(* C14 *)

\* the longest model name an adapter stores
MaxStored == 40

\* the longest model name a cell shows
MaxShown == 35

\* the length of the model name in the cell written for the entry e: what is
\* left of the cell without the markup around the name and without the score
ShownLen(td, e) ==
    LET s == Get(e, "score", "")
        score_html == IF s # "" THEN "<span class=\"score\">" \o s \o "</span>" ELSE ""
    IN  Len(td) - Len("<td><span class=\"model " \o color_class_of(ModelOf(e)) \o "\">")
               - Len("</span>" \o score_html \o "</td>")

\* C14: every model name in the snapshot, at any point of the run, has at
\* most 40 characters, and in the table written every cell that shows a model
\* shows at most 35 characters of it.
C14_LengthBounds ==
    /\ \A src \in DOMAIN all_results : \A c \in DOMAIN all_results[src] :
           Len(ModelOf(all_results[src][c])) <= MaxStored
    /\ pc = "done" =>
           \A row \in DOMAIN rows_template : \A i \in 1..Len(Sources) :
               LET e == Get(all_results[Sources[i]], rows_template[row][i], EmptyDict)
               IN  Table5[row][i] # NaCell => ShownLen(Table5[row][i], e) <= MaxShown

\* a table was written from a snapshot that holds a name cut to 40
\* characters, shown in a cell with 35 characters of it
C14_Witness ==
    /\ pc = "done"
    /\ \E row \in DOMAIN rows_template :
           LET e == Get(all_results["lmarena"], rows_template[row][1], EmptyDict)
           IN  /\ Len(ModelOf(e)) = MaxStored
               /\ served[<<"lmarena", rows_template[row][1]>>].doc = LmLong
               /\ ShownLen(Table5[row][1], e) = MaxShown

----------------------------------------------------------------------------
(* C15 *)

\* the sources scraped on the page of the browser, in the order run() calls
\* their adapters
PageSources == SubSeq(Sources, 1, 4)

\* the adapter of src has made a request
Started(src) == \E i \in DOMAIN UrlsOf(src) : requests[UrlsOf(src)[i][2]] > 0

\* the requests made so far for the URLs of src
RequestsFor(src) == [i \in DOMAIN UrlsOf(src) |-> requests[UrlsOf(src)[i][2]]]

\* a step from a state with the browser closed leaves it closed, the page
\* untouched and the page-based requests as they are
StaysClosed ==
    browser = "closed" =>
        /\ browser' = "closed"
        /\ page' = page
        /\ \A k \in 1..Len(PageSources) : RequestsFor(PageSources[k])' = RequestsFor(PageSources[k])

\* the browser is closed by run()'s browser.close() only
ClosedByRun == (browser # "closed" /\ browser' = "closed") => pc = "close"

\* a page-based request is made by the adapter whose turn it is
InTurn ==
    \A k \in 1..Len(PageSources) :
        RequestsFor(PageSources[k])' # RequestsFor(PageSources[k]) => pc = PageSources[k]

\* C15: the page-based adapters run one at a time in the order LMArena,
\* LiveBench, OpenRouter, Artificial Analysis (one has made a request only
\* when the one before it has made all of its own) and only while the
\* browser is open; the browser is closed once, after they are through and
\* whatever they absorbed, and stays closed; once it is closed the page is
\* not touched and no page-based request is made; LLM-Stats makes its
\* requests only after the close; and when run() has returned the browser is
\* closed.
C15_BrowserLifecycle ==
    /\ [](/\ \A k \in 2..Len(PageSources) :
                 Started(PageSources[k]) => Invoked(PageSources[k - 1])
          /\ (pc \in {"lmarena", "livebench", "openrouter", "artificial_analysis", "close"}
                 => browser = "open")
          /\ (Started("llm_stats") => browser = "closed")
          /\ (browser = "closed" => \A k \in 1..Len(PageSources) : Invoked(PageSources[k]))
          /\ (Returned => browser = "closed"))
    /\ [][StaysClosed /\ ClosedByRun /\ InTurn]_vars

\* run() has returned with the browser closed after a run in which a
\* page-based request raised and LLM-Stats made its requests
C15_Witness ==
    /\ pc = "returned"
    /\ browser = "closed"
    /\ Invoked("llm_stats")
    /\ \E k \in 1..Len(PageSources) : Raised(PageSources[k]) # {}

=============================================================================
